---- MODULE Spec2Model ----
(***************************************************************************)
(* Campaign dispatch of backend/app/routes/campaigns.py: the send_campaign  *)
(* request handler (audience building, scheduling, status update) and the  *)
(* process_campaign_emails background task (provider lookup, per-prospect   *)
(* loop, finalization), over one campaign of the database.                 *)
(***************************************************************************)
EXTENDS Integers, Sequences, FiniteSets, TLC

\* ---------------------------------------------------------------- bounds
NumProspects == 4
NumEmails == 3
NumLists == 2
MaxCap == 3
MaxTriggers == 2
MaxRetriggerCap == 2

\* campaign.get("max_emails", 100)
DefaultMaxEmails == 100

\* An optional value (a Python value that may be None) is a sequence of at
\* most one element.
None == <<>>
Some(x) == <<x>>

ProspectIds == 1..NumProspects
Emails == 1..NumEmails
ListIds == 1..NumLists
Triggers == 1..MaxTriggers

\* The prospects collection: documents with an id and an email; several
\* prospects may carry the same email address.
EmailOf(p) == ((p - 1) % NumEmails) + 1
Prospect(p) == [id |-> p, email |-> EmailOf(p)]
Prospects == {Prospect(p) : p \in ProspectIds}

\* What get_prospects_by_list_id returns for a list with the members S: each
\* member once, in the order of the collection.
ListOf(S) == SelectSeq([p \in ProspectIds |-> Prospect(p)], LAMBDA x : x.id \in S)

\* A campaign's cap: max_emails is absent or an integer.
Caps == {None} \cup {Some(n) : n \in 0..MaxCap}

\* ------------------------------------------------------- pure functions
\* "Remove duplicates": one pass over prospects with the seen_emails set.
RECURSIVE DedupLoop(_, _, _, _)
DedupLoop(prospects, k, seen_emails, unique_prospects) ==
    IF k > Len(prospects) THEN unique_prospects
    ELSE IF prospects[k].email \notin seen_emails
         THEN DedupLoop(prospects, k + 1, seen_emails \cup {prospects[k].email},
                        Append(unique_prospects, prospects[k]))
         ELSE DedupLoop(prospects, k + 1, seen_emails, unique_prospects)

DedupKeepAll(prospects) == prospects

Dedup(prospects) == DedupLoop(prospects, 1, {}, <<>>)

Min(a, b) == IF a < b THEN a ELSE b
Max(a, b) == IF a > b THEN a ELSE b

\* Python's s[:n]: a non-negative n keeps the first n items, a negative n
\* drops the last -n items.
SliceOffByOne(s, n) ==
    IF n >= 0 THEN SubSeq(s, 1, Min(n + 1, Len(s)))
    ELSE SubSeq(s, 1, Max(0, Len(s) + n))

Slice(s, n) ==
    IF n >= 0 THEN SubSeq(s, 1, Min(n, Len(s)))
    ELSE SubSeq(s, 1, Max(0, Len(s) + n))

\* campaign.get("max_emails", 100)
MaxEmailsOf(c) == IF c.max_emails = None THEN DefaultMaxEmails ELSE c.max_emails[1]

\* personalize_template(pattern, prospect): the rendered text depends on the
\* pattern and on the prospect's fields.
Render(pattern, prospect) == <<pattern, prospect.id>>

\* datetime.utcnow() read by run r while it processes its i-th prospect.
UtcNow(r, i) == <<r, i>>

\* ---------------------------------------------------------------- state
VARIABLES
    campaign,          \* the campaign document, or None when it does not exist
    template,          \* the template document, or None when it does not exist
    list_members,      \* list id -> the prospects get_prospects_by_list_id returns
    default_provider,  \* the default email provider, or None
    email_records,     \* the email records created by create_email_record
    last_contact,      \* prospect id -> last contact timestamp, or None
    sends,             \* the send_email calls made so far, as <<run, index>>
    log,               \* the lines printed by the runs
    tpc,               \* per trigger: position in send_campaign
    tlist,             \* per trigger: index of the next list id to fetch
    tprospects,        \* per trigger: the local variable prospects
    tunique,           \* per trigger: the local variable unique_prospects
    response,          \* per trigger: the returned body, or None
    rpc,               \* per run: position in process_campaign_emails
    rprospects,        \* per run: the prospects argument
    ridx,              \* per run: index of the prospect of the current iteration
    rsuccess,          \* per run: success returned by send_email for this iteration
    sent_count,        \* per run: local counter
    failed_count       \* per run: local counter

dbvars == <<campaign, template, list_members, default_provider, email_records,
            last_contact, sends, log>>
tvars == <<tpc, tlist, tprospects, tunique, response>>
rvars == <<rpc, rprospects, ridx, rsuccess, sent_count, failed_count>>
vars == <<campaign, template, list_members, default_provider, email_records,
          last_contact, sends, log, tpc, tlist, tprospects, tunique, response, rpc,
          rprospects, ridx, rsuccess, sent_count, failed_count>>

\* The locals of the handlers and of the runs before any request arrives.
InitLocals ==
    /\ tpc = [t \in Triggers |-> "idle"]
    /\ tlist = [t \in Triggers |-> 1]
    /\ tprospects = [t \in Triggers |-> <<>>]
    /\ tunique = [t \in Triggers |-> <<>>]
    /\ response = [t \in Triggers |-> None]
    /\ rpc = [t \in Triggers |-> "none"]
    /\ rprospects = [t \in Triggers |-> <<>>]
    /\ ridx = [t \in Triggers |-> 1]
    /\ rsuccess = [t \in Triggers |-> FALSE]
    /\ sent_count = [t \in Triggers |-> 0]
    /\ failed_count = [t \in Triggers |-> 0]

\* A freshly created campaign (status draft) with the given lists and cap.
NewCampaign(list_ids, max_emails) ==
    [status |-> "draft", prospect_count |-> 0, list_ids |-> list_ids,
     max_emails |-> max_emails, template_id |-> 1]

TheTemplate == [id |-> 1, subject |-> "subject", content |-> "content"]

InitStore ==
    /\ email_records = {}
    /\ last_contact = [p \in ProspectIds |-> None]
    /\ sends = {}
    /\ log = {}

\* The database before the first trigger: list 1 holds prospects 1 and 2,
\* list 2 every prospect but 1 (prospect 2 is in both lists, and the last
\* prospect has the email address of prospect 1); the campaign names the
\* first lists, none included; any cap; campaign, template and provider
\* present or not.
Init ==
    /\ InitLocals
    /\ InitStore
    /\ list_members = [l \in ListIds |->
                         IF l = 1 THEN ListOf({1, 2}) ELSE ListOf(ProspectIds \ {1})]
    /\ campaign \in {None} \cup
           {Some(NewCampaign([i \in 1..k |-> i], c)) : k \in 0..NumLists, c \in Caps}
    /\ template \in {None, Some(TheTemplate)}
    /\ default_provider \in {None, Some([id |-> "provider"])}

\* The same database for a campaign that is triggered several times: both
\* lists, a small cap.
InitRetrigger ==
    /\ InitLocals
    /\ InitStore
    /\ list_members = [l \in ListIds |->
                         IF l = 1 THEN ListOf({1, 2}) ELSE ListOf(ProspectIds \ {1})]
    /\ campaign \in {None} \cup
           {Some(NewCampaign(<<1, 2>>, Some(n))) : n \in 0..MaxRetriggerCap}
    /\ template \in {None, Some(TheTemplate)}
    /\ default_provider \in {None, Some([id |-> "provider"])}

\* Any lists over the prospects and any cap, for the audience a trigger builds.
InitAudience ==
    /\ InitLocals
    /\ InitStore
    /\ list_members \in [ListIds -> {ListOf(S) : S \in SUBSET ProspectIds}]
    /\ campaign \in {None} \cup
           {Some(NewCampaign([i \in 1..k |-> i], c)) : k \in 0..NumLists, c \in Caps}
    /\ template \in {None, Some(TheTemplate)}
    /\ default_provider = Some([id |-> "provider"])

\* ------------------------------------------------------- send_campaign
\* campaign = await db_service.get_campaign_by_id(campaign_id); 404 if absent.
\* Requests are numbered in their order of arrival.
TGetCampaign(t) ==
    /\ tpc[t] = "idle"
    /\ t > 1 => tpc[t - 1] # "idle"
    /\ tpc' = [tpc EXCEPT ![t] = IF campaign = None THEN "rejected" ELSE "template"]
    /\ UNCHANGED <<tlist, tprospects, tunique, response>>
    /\ UNCHANGED dbvars
    /\ UNCHANGED rvars

\* "if not template: raise HTTPException(status_code=404, ...)"
AfterGetTemplateIgnoresNone(tpl) == "fetch"

AfterGetTemplate(tpl) == IF tpl = None THEN "rejected" ELSE "fetch"

\* template = await db_service.get_template_by_id(...); 404 if absent.
TGetTemplate(t) ==
    /\ tpc[t] = "template"
    /\ tpc' = [tpc EXCEPT ![t] = AfterGetTemplate(template)]
    /\ UNCHANGED <<tlist, tprospects, tunique, response>>
    /\ UNCHANGED dbvars
    /\ UNCHANGED rvars

\* A fetch error that is swallowed: the loop goes on with the next list.
OnFetchErrorSkipsList(t) ==
    /\ tlist' = [tlist EXCEPT ![t] = @ + 1]
    /\ UNCHANGED <<tpc, tprospects>>

\* get_prospects_by_list_id raises: nothing catches it in send_campaign, the
\* handler ends with an error.
OnFetchError(t) ==
    /\ tpc' = [tpc EXCEPT ![t] = "fetch_raised"]
    /\ UNCHANGED <<tlist, tprospects>>

\* One iteration of "for list_id in campaign.get('list_ids', [])": the fetch
\* returns the members, which extend prospects, or raises, which ends the
\* handler with an error.
TFetchList(t) ==
    /\ tpc[t] = "fetch"
    /\ tlist[t] <= Len(campaign[1].list_ids)
    /\ \E raises \in BOOLEAN :
         IF raises
         THEN OnFetchError(t)
         ELSE /\ tprospects' = [tprospects EXCEPT ![t] =
                    @ \o list_members[campaign[1].list_ids[tlist[t]]]]
              /\ tlist' = [tlist EXCEPT ![t] = @ + 1]
              /\ UNCHANGED tpc
    /\ UNCHANGED <<tunique, response>>
    /\ UNCHANGED dbvars
    /\ UNCHANGED rvars

\* The state of a task handed to background_tasks.add_task: held until the
\* handler has returned and its response has been sent.
TaskStartsAtOnce == "ready"

TaskWhenAdded == "scheduled"

\* After the last list: remove duplicates, limit to max_emails, and
\* background_tasks.add_task(process_campaign_emails, campaign_id, prospects,
\* template). The task is held until the response has been sent.
TSchedule(t) ==
    /\ tpc[t] = "fetch"
    /\ tlist[t] > Len(campaign[1].list_ids)
    /\ LET unique_prospects == Dedup(tprospects[t])
           prospects == Slice(unique_prospects, MaxEmailsOf(campaign[1]))
       IN /\ tunique' = [tunique EXCEPT ![t] = unique_prospects]
          /\ tprospects' = [tprospects EXCEPT ![t] = prospects]
          /\ rprospects' = [rprospects EXCEPT ![t] = prospects]
    /\ rpc' = [rpc EXCEPT ![t] = TaskWhenAdded]
    /\ tpc' = [tpc EXCEPT ![t] = "update"]
    /\ UNCHANGED <<tlist, response>>
    /\ UNCHANGED dbvars
    /\ UNCHANGED <<ridx, rsuccess, sent_count, failed_count>>

\* The body send_campaign returns (campaign_id and message left out).
ResponseBodyUncapped(prospects, unique_prospects) ==
    Some([status |-> "active", total_prospects |-> Len(unique_prospects)])

ResponseBody(prospects, unique_prospects) ==
    Some([status |-> "active", total_prospects |-> Len(prospects)])

\* What the trigger gets when update_campaign raises: the exception leaves
\* the handler, no body is returned.
ResponseOnErrorAcks == Some([status |-> "active", total_prospects |-> 0])

ResponseOnError == None

\* The status send_campaign writes.
TriggerStatusCompleted == "completed"

TriggerStatus == "active"

\* await db_service.update_campaign(campaign_id, {status: active,
\* prospect_count: len(prospects)}) and the return of the body. When the
\* update raises, the handler ends with an error and the task is never run.
TUpdateCampaign(t) ==
    /\ tpc[t] = "update"
    /\ \E raises \in BOOLEAN :
         IF raises
         THEN /\ tpc' = [tpc EXCEPT ![t] = "update_raised"]
              /\ rpc' = [rpc EXCEPT ![t] =
                    IF @ = "scheduled" THEN "dropped" ELSE @]
              /\ response' = [response EXCEPT ![t] = ResponseOnError]
              /\ UNCHANGED campaign
         ELSE /\ campaign' = Some([campaign[1] EXCEPT
                                     !.status = TriggerStatus,
                                     !.prospect_count = Len(tprospects[t])])
              /\ response' = [response EXCEPT ![t] =
                    ResponseBody(tprospects[t], tunique[t])]
              /\ tpc' = [tpc EXCEPT ![t] = "returned"]
              /\ rpc' = [rpc EXCEPT ![t] =
                    IF @ = "scheduled" THEN "ready" ELSE @]
    /\ UNCHANGED <<tlist, tprospects, tunique>>
    /\ UNCHANGED <<template, list_members, default_provider, email_records,
                   last_contact, sends, log>>
    /\ UNCHANGED <<rprospects, ridx, rsuccess, sent_count, failed_count>>

\* --------------------------------------------- process_campaign_emails
\* A printed line: the run, the index of the prospect it is about (0 for a
\* line about the whole run), its text and the counters it reports.
Line(r, i, msg, sent, failed) ==
    [run |-> r, idx |-> i, msg |-> msg, sent |-> sent, failed |-> failed]

\* "if not default_provider: print(...); return"
AfterLookupIgnoresNone(provider) == "loop"

AfterLookup(provider) == IF provider = None THEN "aborted" ELSE "loop"

\* default_provider = await email_provider_service.get_default_provider();
\* without one the task prints and returns; a raising lookup ends the task.
RGetProvider(r) ==
    /\ rpc[r] = "ready"
    /\ \E raises \in BOOLEAN :
         IF raises
         THEN /\ rpc' = [rpc EXCEPT ![r] = "lookup_raised"]
              /\ UNCHANGED log
         ELSE /\ rpc' = [rpc EXCEPT ![r] = AfterLookup(default_provider)]
              /\ log' = IF default_provider = None
                        THEN log \cup {Line(r, 0, "no default provider", 0, 0)}
                        ELSE log
    /\ UNCHANGED <<rprospects, ridx, rsuccess, sent_count, failed_count>>
    /\ UNCHANGED <<campaign, template, list_members, default_provider,
                   email_records, last_contact, sends>>
    /\ UNCHANGED tvars

\* "for prospect in prospects": the iteration after iteration i.
NextIndexSkips(i) == i + 2

NextIndex(i) == i + 1

\* A handler that goes through the same prospect again.
ExceptRetries(r, e) ==
    /\ log' = log \cup {Line(r, ridx[r], e, 0, 0)}
    /\ failed_count' = [failed_count EXCEPT ![r] = @ + 1]
    /\ rpc' = [rpc EXCEPT ![r] = "loop"]
    /\ UNCHANGED <<ridx, rprospects, rsuccess, sent_count>>

\* An exception that leaves the loop ends the task.
ExceptPropagates(r, e) ==
    /\ rpc' = [rpc EXCEPT ![r] = "loop_raised"]
    /\ UNCHANGED <<log, failed_count, ridx, rprospects, rsuccess, sent_count>>

\* "except Exception as e: print(...); failed_count += 1; continue": the log
\* and the locals of run r after the handler caught e, the loop being at its
\* next prospect.
ExceptContinue(r, e) ==
    /\ log' = log \cup {Line(r, ridx[r], e, 0, 0)}
    /\ failed_count' = [failed_count EXCEPT ![r] = @ + 1]
    /\ ridx' = [ridx EXCEPT ![r] = NextIndex(@)]
    /\ rpc' = [rpc EXCEPT ![r] = "loop"]
    /\ UNCHANGED <<rprospects, rsuccess, sent_count>>

\* Top of an iteration: personalize content and subject, then
\* await email_provider_service.send_email(...). personalize_template may
\* raise before the send is invoked; send_email may raise, or return
\* (success, error).
RSend(r) ==
    /\ rpc[r] = "loop"
    /\ ridx[r] <= Len(rprospects[r])
    /\ \E outcome \in {"render_raises", "send_raises", "returns"},
          success \in BOOLEAN, error \in {None, Some("SMTP timeout")} :
         CASE outcome = "render_raises" ->
                /\ ExceptContinue(r, "render raised")
                /\ UNCHANGED sends
           [] outcome = "send_raises" ->
                /\ sends' = sends \cup {<<r, ridx[r]>>}
                /\ ExceptContinue(r, "send raised")
           [] outcome = "returns" ->
                /\ sends' = sends \cup {<<r, ridx[r]>>}
                /\ rsuccess' = [rsuccess EXCEPT ![r] = success]
                /\ log' = IF ~success /\ error # None
                          THEN log \cup {Line(r, ridx[r], "sending failed", 0, 0)}
                          ELSE log
                /\ rpc' = [rpc EXCEPT ![r] = "persist"]
                /\ UNCHANGED <<rprospects, ridx, sent_count, failed_count>>
    /\ UNCHANGED <<campaign, template, list_members, default_provider,
                   email_records, last_contact>>
    /\ UNCHANGED tvars

\* sent_at=datetime.utcnow() if success else None
SentAtAlways(success, now) == Some(now)

SentAt(success, now) == IF success THEN Some(now) ELSE None

\* status="sent" if success else "failed"
StatusAlwaysSent(success) == "sent"

StatusOf(success) == IF success THEN "sent" ELSE "failed"

\* EmailMessage(id=generate_id(), prospect_id=..., campaign_id=...,
\* subject=..., content=..., status=..., sent_at=...).dict(); the generated
\* id is the pair of the run and of its iteration.
EmailMessage(r, i, prospect, success) ==
    [id |-> <<r, i>>,
     prospect_id |-> prospect.id,
     campaign_id |-> 1,
     subject |-> Render(template[1].subject, prospect),
     content |-> Render(template[1].content, prospect),
     status |-> StatusOf(success),
     sent_at |-> SentAt(success, UtcNow(r, i))]

\* await db_service.create_email_record(email_record.dict()), then the
\* counter of the outcome. The record's construction or the insert may raise.
RPersist(r) ==
    /\ rpc[r] = "persist"
    /\ \E raises \in BOOLEAN :
         IF raises
         THEN /\ ExceptContinue(r, "persist raised")
              /\ UNCHANGED email_records
         ELSE /\ email_records' = email_records \cup
                    {EmailMessage(r, ridx[r], rprospects[r][ridx[r]], rsuccess[r])}
              /\ IF rsuccess[r]
                 THEN /\ sent_count' = [sent_count EXCEPT ![r] = @ + 1]
                      /\ UNCHANGED failed_count
                 ELSE /\ failed_count' = [failed_count EXCEPT ![r] = @ + 1]
                      /\ UNCHANGED sent_count
              /\ rpc' = [rpc EXCEPT ![r] = "contact"]
              /\ UNCHANGED <<rprospects, ridx, rsuccess, log>>
    /\ UNCHANGED <<campaign, template, list_members, default_provider,
                   last_contact, sends>>
    /\ UNCHANGED tvars

\* await db_service.update_prospect_last_contact(prospect["id"],
\* datetime.utcnow()), then the pause asyncio.sleep(0.1) and the next
\* iteration. The update may raise.
RContact(r) ==
    /\ rpc[r] = "contact"
    /\ \E raises \in BOOLEAN :
         IF raises
         THEN /\ ExceptContinue(r, "contact raised")
              /\ UNCHANGED last_contact
         ELSE /\ last_contact' = [last_contact EXCEPT
                    ![rprospects[r][ridx[r]].id] = Some(UtcNow(r, ridx[r]))]
              /\ ridx' = [ridx EXCEPT ![r] = NextIndex(@)]
              /\ rpc' = [rpc EXCEPT ![r] = "loop"]
              /\ UNCHANGED <<rprospects, rsuccess, sent_count, failed_count, log>>
    /\ UNCHANGED <<campaign, template, list_members, default_provider,
                   email_records, sends>>
    /\ UNCHANGED tvars

\* After the loop: await db_service.update_campaign(campaign_id,
\* {"status": "completed"}) and the closing print; a raising update ends the
\* task.
RFinalize(r) ==
    /\ rpc[r] = "loop"
    /\ ridx[r] > Len(rprospects[r])
    /\ \E raises \in BOOLEAN :
         IF raises
         THEN /\ rpc' = [rpc EXCEPT ![r] = "finalize_raised"]
              /\ UNCHANGED <<campaign, log>>
         ELSE /\ rpc' = [rpc EXCEPT ![r] = "done"]
              /\ campaign' = Some([campaign[1] EXCEPT !.status = "completed"])
              /\ log' = log \cup
                    {Line(r, 0, "completed", sent_count[r], failed_count[r])}
    /\ UNCHANGED <<rprospects, ridx, rsuccess, sent_count, failed_count>>
    /\ UNCHANGED <<template, list_members, default_provider, email_records,
                   last_contact, sends>>
    /\ UNCHANGED tvars

\* One request of send_campaign and the run it schedules.
Next ==
    \/ TGetCampaign(1)
    \/ TGetTemplate(1)
    \/ TFetchList(1)
    \/ TSchedule(1)
    \/ TUpdateCampaign(1)
    \/ RGetProvider(1)
    \/ RSend(1)
    \/ RPersist(1)
    \/ RContact(1)
    \/ RFinalize(1)

Spec == Init /\ [][Next]_vars

\* The event loop runs the task whenever it can take a step, and every
\* collaborator call returns or raises.
RunFairness ==
    /\ WF_vars(RGetProvider(1))
    /\ WF_vars(RSend(1))
    /\ WF_vars(RPersist(1))
    /\ WF_vars(RContact(1))
    /\ WF_vars(RFinalize(1))

SpecFair == Init /\ [][Next]_vars /\ RunFairness

\* The handler alone, up to its response, over any lists and cap.
NextAudience ==
    \/ TGetCampaign(1)
    \/ TGetTemplate(1)
    \/ TFetchList(1)
    \/ TSchedule(1)
    \/ TUpdateCampaign(1)

SpecAudience == InitAudience /\ [][NextAudience]_vars

\* Several requests for the same campaign, their handlers and runs
\* interleaved at every await.
NextRetrigger ==
    \E t \in Triggers :
        \/ TGetCampaign(t)
        \/ TGetTemplate(t)
        \/ TFetchList(t)
        \/ TSchedule(t)
        \/ TUpdateCampaign(t)
        \/ RGetProvider(t)
        \/ RSend(t)
        \/ RPersist(t)
        \/ RContact(t)
        \/ RFinalize(t)

SpecRetrigger == InitRetrigger /\ [][NextRetrigger]_vars

\* ---------------------------------------------------------- properties
\* The members of the campaign's lists, list after list in the order of
\* list_ids, each list in the order the database returns it.
RECURSIVE MembersFrom(_)
MembersFrom(k) ==
    IF k > Len(campaign[1].list_ids) THEN <<>>
    ELSE list_members[campaign[1].list_ids[k]] \o MembersFrom(k + 1)

AllMembers == MembersFrom(1)

\* The position in s of the first prospect with the given email.
FirstPos(s, email) ==
    CHOOSE k \in 1..Len(s) :
        /\ s[k].email = email
        /\ \A j \in 1..(k - 1) : s[j].email # email

EmailsIn(s) == {s[k].email : k \in 1..Len(s)}

\* Trigger t has built its audience (it is past "Limit to max_emails").
Built(t) == tpc[t] \in {"update", "returned"}

\* C1: the deduplicated prospects of a trigger hold each email address at
\* most once and are exactly the first occurrences of the addresses of the
\* campaign's lists, taken in list order and then within-list order.
C1_DedupFirstOccurrences ==
    Built(1) =>
      LET u == tunique[1]
          all == AllMembers
      IN /\ \A i, j \in 1..Len(u) : i # j => u[i].email # u[j].email
         /\ EmailsIn(u) = EmailsIn(all)
         /\ \A i \in 1..Len(u) : u[i] = all[FirstPos(all, u[i].email)]
         /\ \A i, j \in 1..Len(u) :
              i < j => FirstPos(all, u[i].email) < FirstPos(all, u[j].email)

\* An audience was built from lists that repeat an address within a list and
\* across lists, the second list contributing a first occurrence as well.
C1_Witness ==
    /\ Built(1)
    /\ Len(tunique[1]) = NumEmails
    /\ Len(AllMembers) >= Len(tunique[1]) + 2
    /\ \E l \in ListIds :
         \E i, j \in 1..Len(list_members[l]) :
            i < j /\ list_members[l][i].email = list_members[l][j].email

\* C2: for a cap c >= 0 the audience is the prefix of the deduplicated
\* prospects of length min(c, number of unique emails); it never exceeds c
\* and is the whole deduplicated sequence when c is at least their number.
C2_CapIsPrefix ==
    (Built(1) /\ MaxEmailsOf(campaign[1]) >= 0) =>
      LET c == MaxEmailsOf(campaign[1])
          u == tunique[1]
          a == rprospects[1]
      IN /\ Len(a) = (IF c < Len(u) THEN c ELSE Len(u))
         /\ Len(a) <= c
         /\ \A i \in 1..Len(a) : a[i] = u[i]
         /\ c >= Len(u) => a = u

\* A cap below the number of unique addresses cut the audience; the prospects
\* beyond the cap were dropped.
C2_Witness ==
    /\ Built(1)
    /\ MaxEmailsOf(campaign[1]) = 2
    /\ Len(tunique[1]) = 3
    /\ Len(rprospects[1]) = 2

\* The email records created by run r.
RecordsOf(r) == {rec \in email_records : rec.id[1] = r}

\* Run r wrote campaign status completed.
Finalized(r) == rpc[r] = "done"

\* Run r has left its per-prospect loop.
PastLoop(r) ==
    \/ rpc[r] \in {"done", "finalize_raised"}
    \/ rpc[r] = "loop" /\ ridx[r] > Len(rprospects[r])

ExceptionTexts == {"render raised", "send raised", "persist raised", "contact raised"}

\* The handler of run r caught an exception while processing prospect i.
Caught(r, i) == \E l \in log : l.run = r /\ l.idx = i /\ l.msg \in ExceptionTexts

\* Prospect i of run r got its send attempt, or its own rendering raised
\* before the send could be invoked.
Attempted(r, i) ==
    \/ <<r, i>> \in sends
    \/ Line(r, i, "render raised", 0, 0) \in log

\* C3 (as claimed): a run that wrote completed created exactly one email
\* record per prospect of its audience, whatever the outcomes, exceptions
\* included.
C3_OneRecordPerRecipient ==
    Finalized(1) =>
      /\ Cardinality(RecordsOf(1)) = Len(rprospects[1])
      /\ \A i \in 1..Len(rprospects[1]) :
           Cardinality({rec \in RecordsOf(1) :
                          rec.prospect_id = rprospects[1][i].id}) = 1

\* C4: an exception raised while one prospect is processed is caught inside
\* the loop: the task does not end on it, the loop stands at the next
\* prospect right after the handler, and once the loop is over every prospect
\* has had its send attempt (or a rendering failure of its own).
C4_ExceptionIsolated ==
    [][/\ rpc'[1] # "loop_raised"
       /\ \A i \in 1..Len(rprospects[1]) :
            (Caught(1, i)' /\ ~Caught(1, i)) =>
               (rpc'[1] = "loop" /\ ridx'[1] = i + 1)
       /\ \A j \in 1..Len(rprospects[1]) :
            (j < ridx'[1] \/ PastLoop(1)') => Attempted(1, j)']_vars

\* The first two prospects raised (the second one after its record was
\* persisted or its send was invoked), the third was still sent to, and the
\* run finalized.
C4_Witness ==
    /\ Finalized(1)
    /\ Len(rprospects[1]) = 3
    /\ Caught(1, 1)
    /\ Line(1, 2, "contact raised", 0, 0) \in log
    /\ <<1, 3>> \in sends

\* C5: without a default provider the run sends to nobody, creates no email
\* record, updates no last contact and never writes completed; once it has
\* returned, the campaign is active with the count the trigger wrote.
C5_NoProviderNoProgress ==
    default_provider = None =>
      /\ sends = {}
      /\ email_records = {}
      /\ \A p \in ProspectIds : last_contact[p] = None
      /\ rpc[1] \in {"none", "scheduled", "dropped", "ready", "aborted",
                     "lookup_raised"}
      /\ campaign # None => campaign[1].status # "completed"
      /\ rpc[1] = "aborted" =>
           /\ campaign[1].status = "active"
           /\ campaign[1].prospect_count = Len(rprospects[1])

\* A run with a non-empty audience found no provider and returned.
C5_Witness ==
    /\ default_provider = None
    /\ rpc[1] = "aborted"
    /\ Len(rprospects[1]) = 3

\* C6: every persisted email record with status sent has a sent_at, every
\* one with status failed has none.
C6_SentAtIffSent ==
    \A rec \in email_records :
        /\ rec.status \in {"sent", "failed"}
        /\ rec.status = "sent" => rec.sent_at # None
        /\ rec.status = "failed" => rec.sent_at = None

\* A sent record and a failed record are both persisted.
C6_Witness ==
    /\ \E rec \in email_records : rec.status = "sent"
    /\ \E rec \in email_records : rec.status = "failed"

\* C7: each send_email call happens after the handler has written status
\* active with the count and has returned; nothing is sent while the
\* campaign is in draft.
C7_ActiveBeforeFirstSend ==
    [][/\ sends' # sends =>
            /\ tpc[1] = "returned"
            /\ campaign[1].status = "active"
            /\ campaign[1].prospect_count = Len(rprospects[1])
       /\ (campaign' # None /\ campaign'[1].status = "draft") => sends' = {}]_vars

\* The run has made its first send attempt, the campaign being active.
C7_Witness ==
    /\ sends = {<<1, 1>>}
    /\ campaign[1].status = "active"
    /\ Len(rprospects[1]) >= 2

\* C8 (as claimed): whenever the campaign is completed, every prospect of
\* the audience has been attempted and has an email record.
C8_CompletedAfterAllRecorded ==
    (campaign # None /\ campaign[1].status = "completed") =>
      \A i \in 1..Len(rprospects[1]) :
          /\ <<1, i>> \in sends
          /\ \E rec \in email_records : rec.id = <<1, i>>

\* C9 (as claimed): when the run has finalized, the last contact of every
\* prospect of its audience was updated by the run.
C9_LastContactAlwaysUpdated ==
    Finalized(1) =>
      \A i \in 1..Len(rprospects[1]) :
          last_contact[rprospects[1][i].id] = Some(UtcNow(1, i))

\* C10: the body of a successful trigger has status active and a total
\* equal to the length of the audience, which is the count persisted on the
\* campaign and the length of the prospects handed to the run; it stays so
\* whatever the run does afterwards.
C10_AckIsAudienceSize ==
    /\ tpc[1] = "returned" =>
         /\ response[1] # None
         /\ response[1][1].status = "active"
         /\ response[1][1].total_prospects = Len(tprospects[1])
         /\ response[1][1].total_prospects = Len(rprospects[1])
         /\ response[1][1].total_prospects = campaign[1].prospect_count
         /\ rpc[1] \notin {"none", "scheduled", "dropped"}
    /\ tpc[1] # "returned" => response[1] = None

\* The trigger answered with a capped total and the run then ended, by
\* finalizing or for lack of a provider.
C10_Witness ==
    /\ tpc[1] = "returned"
    /\ response[1][1].total_prospects = 2
    /\ Len(tunique[1]) = 3
    /\ rpc[1] \in {"done", "aborted"}

\* C11: when the fetch of one of the campaign's lists raises, the trigger
\* fails as a whole: no run is scheduled, the campaign keeps its status and
\* count, no email record is created; a run is only ever scheduled on the
\* members of all the lists.
C11_FetchFailureAbortsTrigger ==
    /\ tpc[1] = "fetch_raised" =>
         /\ rpc[1] = "none"
         /\ response[1] = None
         /\ campaign[1].status = "draft"
         /\ campaign[1].prospect_count = 0
         /\ email_records = {}
         /\ sends = {}
    /\ rpc[1] # "none" =>
         /\ tlist[1] = Len(campaign[1].list_ids) + 1
         /\ EmailsIn(tunique[1]) = EmailsIn(AllMembers)

\* The first list was fetched and the fetch of the second one raised: the
\* partial audience was not dispatched.
C11_Witness ==
    /\ tpc[1] = "fetch_raised"
    /\ tlist[1] = 2
    /\ Len(tprospects[1]) = 2
    /\ rpc[1] = "none"

\* C12: when the campaign or its template does not exist the trigger is
\* rejected before anything else: no list is fetched, no run is scheduled,
\* the campaign is not written, no send, email record or last contact update
\* happens.
C12_MissingDocRejected ==
    /\ (campaign = None \/ template = None) =>
         /\ tpc[1] \in {"idle", "template", "rejected"}
         /\ campaign = None => tpc[1] # "template"
    /\ tpc[1] = "rejected" =>
         /\ campaign = None \/ template = None
         /\ tlist[1] = 1
         /\ tprospects[1] = <<>>
         /\ rpc[1] = "none"
         /\ response[1] = None
         /\ campaign # None =>
              (campaign[1].status = "draft" /\ campaign[1].prospect_count = 0)
         /\ sends = {}
         /\ email_records = {}
         /\ \A p \in ProspectIds : last_contact[p] = None

\* A trigger of an existing campaign with lists was rejected for its missing
\* template.
C12_Witness ==
    /\ tpc[1] = "rejected"
    /\ campaign # None
    /\ Len(campaign[1].list_ids) = NumLists
    /\ template = None

\* C13: a cap of 0 or a campaign without lists gives an empty audience, and
\* an empty audience is no error: the trigger writes active with count 0 and
\* the run goes from the provider lookup straight to the completed update,
\* which finds the campaign active, with no send and no email record.
C13_EmptyAudienceCompletes ==
    [][/\ (Built(1)' /\ (MaxEmailsOf(campaign[1]) = 0 \/ campaign[1].list_ids = <<>>))
            => rprospects'[1] = <<>>
       /\ (tpc'[1] = "returned" /\ rprospects'[1] = <<>>) =>
            /\ response'[1] # None
            /\ campaign'[1].prospect_count = 0
            /\ campaign'[1].status \in {"active", "completed"}
            /\ rpc'[1] \in {"ready", "aborted", "lookup_raised", "loop",
                            "finalize_raised", "done"}
            /\ sends' = {}
            /\ email_records' = {}
            /\ (rpc'[1] = "done" /\ rpc[1] # "done") =>
                 /\ rpc[1] = "loop"
                 /\ campaign[1].status = "active"
                 /\ campaign'[1].status = "completed"]_vars

\* A campaign with both lists and a cap of 0 was triggered and its run
\* completed it.
C13_Witness ==
    /\ rpc[1] = "done"
    /\ rprospects[1] = <<>>
    /\ Len(tunique[1]) = NumEmails
    /\ campaign[1].status = "completed"
    /\ campaign[1].prospect_count = 0
    /\ email_records = {}

\* C14: the email record created for a prospect has status sent exactly when
\* the send_email call of that iteration returned success, and failed exactly
\* when it returned no success; the records of the other prospects are left
\* as they are.
C14_StatusFollowsSendResult ==
    [][\A rec \in email_records' \ email_records :
          /\ rpc[rec.id[1]] = "persist"
          /\ rec.id[2] = ridx[rec.id[1]]
          /\ rec.prospect_id = rprospects[rec.id[1]][rec.id[2]].id
          /\ rec.status = "sent" <=> rsuccess[rec.id[1]]
          /\ rec.status = "failed" <=> ~rsuccess[rec.id[1]]
          /\ email_records' \ {rec} = email_records]_vars

\* Three prospects, no exception: the send for the second one failed, the
\* two others are recorded as sent, and the run completed the campaign.
C14_Witness ==
    /\ rpc[1] = "done"
    /\ campaign[1].status = "completed"
    /\ Len(rprospects[1]) = 3
    /\ ~\E i \in 1..3 : Caught(1, i)
    /\ {<<rec.id[2], rec.status>> : rec \in email_records} =
          {<<1, "sent">>, <<2, "failed">>, <<3, "sent">>}

\* C15 (as claimed): a run that found no default provider means the trigger
\* got a rejection, not a success body.
C15_NoProviderRejectsTrigger ==
    rpc[1] = "aborted" => response[1] = None

\* C15 (amended): what send_campaign itself detects (missing campaign,
\* missing template, a raising list fetch, a raising status update) ends the
\* trigger without a success body and without a run; the missing provider is
\* found by the run after the trigger got its success body, and is only
\* printed.
C15_HandlerErrorsRejected ==
    /\ tpc[1] \in {"rejected", "fetch_raised", "update_raised"} =>
         /\ response[1] = None
         /\ rpc[1] \in {"none", "dropped"}
    /\ rpc[1] = "aborted" =>
         /\ default_provider = None
         /\ tpc[1] = "returned"
         /\ response[1] # None
         /\ response[1][1].status = "active"
         /\ Line(1, 0, "no default provider", 0, 0) \in log

\* The status update raised after the task had been added: no body, and the
\* task was dropped.
C15_Witness ==
    /\ tpc[1] = "update_raised"
    /\ rpc[1] = "dropped"
    /\ Len(rprospects[1]) = 3

\* C16 (as claimed): a run that found a provider and has ended has written
\* campaign status completed.
C16_EndedRunCompleted ==
    rpc[1] \in {"done", "finalize_raised", "loop_raised"} =>
        campaign[1].status = "completed"

\* C16 (amended): a run that found a provider always gets through its loop
\* to the completed update, however many prospects fail or raise; the update
\* writes completed unless it raises itself.
C16_RunReachesFinalization ==
    /\ (rpc[1] = "loop") ~> (rpc[1] \in {"done", "finalize_raised"})
    /\ [](rpc[1] = "done" => campaign[1].status = "completed")

\* Every prospect of the audience raised and the run still completed the
\* campaign.
C16_Witness ==
    /\ rpc[1] = "done"
    /\ campaign[1].status = "completed"
    /\ Len(rprospects[1]) = 3
    /\ \A i \in 1..3 : Caught(1, i)

\* The processing of prospect i of run r has ended: its record is persisted
\* and its last contact updated, or its exception was caught.
Ended(r, i) ==
    \/ Caught(r, i)
    \/ /\ \E rec \in email_records : rec.id = <<r, i>>
       /\ last_contact[rprospects[r][i].id] = Some(UtcNow(r, i))

\* C17: the prospects of a run are processed one at a time in the order of
\* the audience: a send is invoked for the prospect the loop stands at, one
\* send per step, and only when the processing of every earlier prospect has
\* ended; an email record is created and a last contact updated only for the
\* prospect whose send has just returned.
C17_StrictlySequential ==
    [][/\ \A c \in sends' \ sends :
            /\ sends' = sends \cup {c}
            /\ c = <<1, ridx[1]>>
            /\ rpc[1] = "loop"
            /\ \A i \in 1..(c[2] - 1) : Ended(1, i)
       /\ \A rec \in email_records' \ email_records :
            /\ rec.id = <<1, ridx[1]>>
            /\ rec.id \in sends
            /\ \A i \in 1..(ridx[1] - 1) : Ended(1, i)
       /\ \A p \in ProspectIds :
            last_contact'[p] # last_contact[p] =>
               /\ p = rprospects[1][ridx[1]].id
               /\ \E rec \in email_records : rec.id = <<1, ridx[1]>>
       /\ ridx'[1] \in {ridx[1], ridx[1] + 1}]_vars

\* The send for the third prospect is invoked after the first was fully
\* processed and the second raised.
C17_Witness ==
    /\ <<1, 3>> \in sends
    /\ rpc[1] = "persist"
    /\ \E rec \in email_records : rec.id = <<1, 1>>
    /\ last_contact[rprospects[1][1].id] = Some(UtcNow(1, 1))
    /\ Caught(1, 2)

\* C18: a run creates at most one email record per prospect, also when an
\* exception follows the insert, and no step changes or removes a record
\* once it is created.
C18_RecordsCreatedOnceAndKept ==
    [][/\ email_records \subseteq email_records'
       /\ \A rec \in email_records' \ email_records :
            /\ email_records' = email_records \cup {rec}
            /\ ~\E old \in email_records :
                  old.id[1] = rec.id[1] /\ old.prospect_id = rec.prospect_id
       /\ \A i \in 1..Len(rprospects[1]) :
            Cardinality({rec \in RecordsOf(1)' :
                           rec.prospect_id = rprospects[1][i].id}) <= 1]_vars

\* The last contact update raised after the record of the first prospect
\* was persisted; the run went on and ended with that one record for it.
C18_Witness ==
    /\ rpc[1] = "done"
    /\ Line(1, 1, "contact raised", 0, 0) \in log
    /\ Cardinality({rec \in email_records : rec.prospect_id = rprospects[1][1].id}) = 1
    /\ Cardinality(email_records) >= 2

\* C19 (as claimed): at finalization sent_count + failed_count is the length
\* of the audience.
C19_CountersSumToAudience ==
    Finalized(1) => sent_count[1] + failed_count[1] = Len(rprospects[1])

\* A run of the campaign stands in its loop with prospects left to process.
Unprocessed(r) ==
    /\ rpc[r] \in {"loop", "persist", "contact"}
    /\ ridx[r] <= Len(rprospects[r])

\* C20 (as claimed): with interleaved triggers of one campaign, no run has
\* unprocessed prospects while the campaign is completed.
C20_CompletedMeansNoRunInFlight ==
    (campaign # None /\ campaign[1].status = "completed") =>
        \A r \in Triggers : ~Unprocessed(r)

\* C20 (amended): with interleaved triggers, the campaign is completed only
\* once some run has finalized (the others may still be in flight), only a
\* finalizing run writes completed, and completed goes back to active only
\* by the status update of a later trigger.
C20_CompletedByAFinalizedRun ==
    [][/\ (campaign' # None /\ campaign'[1].status = "completed") =>
            \E r \in Triggers : rpc'[r] = "done"
       /\ (campaign # None /\ campaign[1].status # "completed"
             /\ campaign'[1].status = "completed") =>
            \E r \in Triggers :
               /\ rpc[r] = "loop" /\ rpc'[r] = "done"
               /\ ridx[r] > Len(rprospects[r])
       /\ (campaign # None /\ campaign[1].status = "completed"
             /\ campaign'[1].status # "completed") =>
            /\ campaign'[1].status = "active"
            /\ \E t \in Triggers : tpc[t] = "update" /\ tpc'[t] = "returned"]_vars

\* The first run completed the campaign while the run of the second trigger
\* still has prospects to process.
C20_Witness ==
    /\ rpc[1] = "done"
    /\ campaign[1].status = "completed"
    /\ Unprocessed(2)
    /\ sends # {}

====
